---- MODULE Spec2Model ----
(***************************************************************************)
(* Model of common/management/commands/generate_all_dummy_data.py: the     *)
(* management command that fills every registered model with dummy rows.   *)
(***************************************************************************)
EXTENDS Integers, Sequences, FiniteSets, TLC

VARIABLES
    registry,           \* apps.get_models(): sequence of model descriptors
    options,            \* the parsed command line handed to handle()
    seed,               \* state of the pseudo random generator
    faults,             \* environment: which operations on which table raise
    groups,             \* auth_group rows: name -> number of rows
    users,              \* auth_user rows: sequence of [username, is_superuser]
    rows,               \* rows of the other tables: model name -> sequence
    created_objects,    \* Command.created_objects
    processed_models,   \* Command.processed_models
    skipped_models,     \* Command.skipped_models
    pc,                 \* position inside handle()
    excluded_models,    \* local of handle()
    models_to_process,  \* local of handle()
    sorted_models,      \* local of handle()
    idx,                \* position of the for loop over sorted_models
    stdout,             \* messages written to self.stdout
    logged,             \* messages written to logger.error
    run,                \* number of the current invocation of the command
    called,             \* models generate_data_for_model was called with
    attempts,           \* model name -> iterations of the instance loop made
    raised,             \* exceptions raised while a model was processed
    fkLog,              \* observations of the ForeignKey branch
    field,              \* the field handed to generate_field_value
    value               \* what generate_field_value / create_model_instance gave

vars == <<registry, options, seed, faults, groups, users, rows,
          created_objects, processed_models, skipped_models, pc,
          excluded_models, models_to_process, sorted_models, idx, stdout,
          logged, run, called, attempts, raised, fkLog, field, value>>

-----------------------------------------------------------------------------
(* Bounds of the model *)
MaxRuns == 2
MaxSeed == 1
PriorRows == 2

(* Program constants *)
NumRecords == 100
MaxRelations == 5
DefaultMaxLength == 100
None == 0

GroupNames == <<"managers", "operators", "superoperators">>

Range(s) == {s[i] : i \in 1..Len(s)}
Min(a, b) == IF a < b THEN a ELSE b

-----------------------------------------------------------------------------
(* Model descriptors: model._meta.  A field name is the sequence of its    *)
(* lower-case segments, "user_email" being <<"user", "email">>, so that     *)
(* name.lower().endswith(w) is a test of the last segment.                  *)
NoModel == <<"", "">>
NoValue == [type |-> "none", s |-> <<>>, n |-> None]
Val(type, s, n) == [type |-> type, s |-> s, n |-> n]

Field(kind, name, max_length, null, default) ==
    [kind |-> kind, name |-> name, max_length |-> max_length, null |-> null,
     default |-> default, target |-> NoModel]
FK(name, target, null) ==
    [kind |-> "ForeignKey", name |-> <<name>>, max_length |-> 0, null |-> null,
     default |-> NoValue, target |-> target]
M2M(name, target) == [name |-> <<name>>, target |-> target]
Id == Field("AutoField", <<"id">>, 0, FALSE, NoValue)
Model(label, name, abstract, fields, m2m) ==
    [app_label |-> label, model_name |-> name, abstract |-> abstract,
     fields |-> <<Id>> \o fields, many_to_many |-> m2m]

\* f"{model._meta.app_label}.{model._meta.model_name}"
ModelName(model) == <<model.app_label, model.model_name>>

User == Model("auth", "user", FALSE, <<>>, <<>>)
Company == <<"crm", "company">>
Contact == <<"crm", "contact">>
Tag == <<"crm", "tag">>

\* The registries the command is run on; a referencing model may be
\* registered before the model it references.
Registries ==
    { <<Model("crm", "contact", FALSE, <<FK("company", Company, FALSE)>>, <<>>),
        User,
        Model("crm", "company", FALSE, <<>>, <<>>),
        Model("crm", "tag", FALSE, <<>>, <<>>)>>,
      <<Model("crm", "contact", FALSE,
              <<FK("company", Company, FALSE), FK("owner", <<"auth", "user">>, FALSE)>>,
              <<>>),
        Model("crm", "company", FALSE, <<>>, <<M2M("tags", Tag)>>),
        Model("crm", "tag", FALSE, <<>>, <<M2M("companies", Company)>>),
        User>>,
      <<User,
        Model("crm", "company", FALSE, <<FK("parent", Company, TRUE)>>,
              <<M2M("partners", Company)>>),
        Model("crm", "base", TRUE, <<>>, <<>>),
        Model("crm", "tag", FALSE, <<FK("company", Company, FALSE)>>,
              <<M2M("contacts", Contact)>>),
        Model("crm", "contact", FALSE,
              <<FK("tag", Tag, FALSE), FK("company", Company, TRUE)>>,
              <<M2M("tags", Tag)>>)>> }

AllNames == UNION {{ModelName(reg[i]) : i \in 1..Len(reg)} : reg \in Registries}

Descriptor(reg, name) == CHOOSE m \in Range(reg) : ModelName(m) = name

-----------------------------------------------------------------------------
(* The environment: the fault one table shows during a run.                *)
(*   "none"   nothing raises                                              *)
(*   "all"    every save() of the model raises                            *)
(*   "odd"    save() raises for the instances with an odd loop index       *)
(*   "setup"  self.stdout.write raises at the start of the model           *)
(*   "wire"   the set() of a many-to-many manager raises                   *)
(*   "query"  reading the table raises                                     *)
(*   "first", "second", "third"  that get_or_create of a group raises      *)
GroupTable == <<"auth", "group">>
Tables == AllNames \cup {GroupTable}
NoFaults == [n \in Tables |-> "none"]
OneFault(bad, kind) == [n \in Tables |-> IF n = bad THEN kind ELSE "none"]

BootstrapFaults ==
    {NoFaults, OneFault(ModelName(User), "query")} \cup
    {OneFault(GroupTable, k) : k \in {"first", "second", "third"}}

Names(ms) == {ModelName(ms[k]) : k \in 1..Len(ms)}

\* At most one table is faulty in a run, in a way the run can meet.
FaultPlans(reg) ==
    BootstrapFaults \cup
    {OneFault(ModelName(m), k) : m \in {x \in Range(reg) : x.app_label # "auth"},
                                 k \in {"all", "odd", "setup"}} \cup
    {OneFault(ModelName(m), "wire") :
        m \in {x \in Range(reg) : x.many_to_many # <<>>}} \cup
    {OneFault(f.target, "query") :
        f \in UNION {Range(m.fields) : m \in Range(reg)} \ {Id}}

\* random.choice / random.randint / order_by('?'): the i-th draw among n
Rand(i, n) == ((seed + i) % n) + 1

-----------------------------------------------------------------------------
(* The store *)
StoreCount(db, name) == IF name = ModelName(User) THEN Len(users) ELSE Len(db[name])

Message(kind, model, n) == [kind |-> kind, model |-> model, n |-> n]

\* dict.get(key, [])
Get(dict, key) == IF key \in DOMAIN dict THEN dict[key] ELSE <<>>
\* dict[key] = val
Put(dict, key, val) ==
    [k \in DOMAIN dict \cup {key} |-> IF k = key THEN val ELSE dict[k]]

-----------------------------------------------------------------------------
(* The fake-data source.  A draw L selects the length of what Faker gives; *)
(* a string is the sequence of its characters.                              *)
Str(n, c) == [k \in 1..n |-> c]
\* s[:n]
Truncate(s, n) == SubSeq(s, 1, Min(Len(s), n))
\* user_name@domain_name
FakerEmail(L) == Str(L, "u") \o <<"@">> \o Str(7, "d") \o <<".">> \o Str(3, "c")
FakerPhone(L) == Str(10 + L, "9")
FakerName(L) == Str(2 + L, "n") \o <<" ">> \o Str(2 + L, "n")
\* Faker.text(max_nb_chars): at most max_nb_chars characters
FakerText(max_nb_chars, L) == Str(Min(max_nb_chars, 4 * L), "t")

\* The classes a field of each kind is an instance of (django.db.models)
Bases(kind) ==
    CASE kind = "EmailField" -> {"EmailField", "CharField"}
      [] kind = "URLField" -> {"URLField", "CharField"}
      [] kind = "DateTimeField" -> {"DateTimeField", "DateField"}
      [] kind = "SmallIntegerField" -> {"SmallIntegerField", "IntegerField"}
      [] kind = "AutoField" -> {"AutoField", "IntegerField"}
      [] kind = "OneToOneField" -> {"OneToOneField", "ForeignKey"}
      [] OTHER -> {kind}
IsInstance(f, cls) == cls \in Bases(f.kind)
EndsWith(name, w) == name # <<>> /\ name[Len(name)] = w

\* Variant: the store is asked first, the ledger only when it has no row
ForeignKeyValueStoreFirst(f, i, db) ==
    LET related_objects == Get(created_objects, f.target)
        n == StoreCount(db, f.target)
    IN IF faults[f.target] # "query" /\ n > 0
       THEN [value |-> Val("obj", <<>>, Rand(i, n)), queried |-> TRUE]
       ELSE IF related_objects # <<>>
       THEN [value |-> Val("obj", <<>>, related_objects[Rand(i, Len(related_objects))]),
             queried |-> TRUE]
       ELSE [value |-> NoValue, queried |-> TRUE]

\* The ForeignKey branch, lines 184-197.  i numbers the draw; db is the
\* store as the instance loop has left it.
ForeignKeyValue(f, i, db) ==
    LET related_objects == Get(created_objects, f.target)
        n == StoreCount(db, f.target)
    IN IF related_objects # <<>>
       THEN [value |-> Val("obj", <<>>, related_objects[Rand(i, Len(related_objects))]),
             queried |-> FALSE]
       ELSE IF faults[f.target] = "query" THEN [value |-> NoValue, queried |-> TRUE]
       ELSE IF n = 0 THEN [value |-> NoValue, queried |-> TRUE]
       ELSE [value |-> Val("obj", <<>>, Rand(i, n)), queried |-> TRUE]

\* The short-text branch, lines 139-151
CharFieldValue(f, L) ==
    LET max_length == IF f.max_length = None THEN DefaultMaxLength ELSE f.max_length
    IN IF EndsWith(f.name, "email") THEN Val("str", FakerEmail(L), 0)
       ELSE IF EndsWith(f.name, "phone")
            THEN Val("str", Truncate(FakerPhone(L), max_length), 0)
       ELSE IF EndsWith(f.name, "name")
            THEN Val("str", Truncate(FakerName(L), max_length), 0)
       ELSE IF f.name = <<"language_code">> THEN Val("str", <<"e", "n">>, 0)
       \* Faker.text raises ValueError below 5 characters: line 202
       ELSE IF max_length < 5 THEN NoValue
       ELSE Val("str", Truncate(FakerText(max_length, L), max_length), 0)

\* generate_field_value
GenerateFieldValue(f, i, db, L) ==
    IF IsInstance(f, "CharField") THEN CharFieldValue(f, L)
    ELSE IF IsInstance(f, "TextField") THEN Val("str", FakerText(200, L), 0)
    ELSE IF IsInstance(f, "DateTimeField") THEN Val("datetime", <<>>, L)
    ELSE IF IsInstance(f, "DateField") THEN Val("date", <<>>, L)
    ELSE IF IsInstance(f, "BooleanField") THEN Val("bool", <<>>, L % 2)
    ELSE IF IsInstance(f, "IntegerField") \/ IsInstance(f, "SmallIntegerField")
         THEN IF f.name = <<"index_number">> THEN Val("int", <<>>, (L % 100) + 1)
              ELSE Val("int", <<>>, L % 1001)
    ELSE IF IsInstance(f, "DecimalField") THEN Val("decimal", <<>>, L)
    ELSE IF IsInstance(f, "URLField") THEN Val("str", <<"h">> \o FakerText(20, L), 0)
    ELSE IF IsInstance(f, "ForeignKey") THEN ForeignKeyValue(f, i, db).value
    ELSE IF IsInstance(f, "EmailField") THEN Val("str", FakerEmail(L), 0)
    ELSE NoValue

\* create_model_instance: model() holds the declared defaults, then every
\* field but id and pk is assigned what generate_field_value returned
IdNames == {<<"id">>, <<"pk">>}
NewInstance(model) ==
    [n \in {model.fields[k].name : k \in 1..Len(model.fields)} |->
        (CHOOSE f \in Range(model.fields) : f.name = n).default]

SetAttr(instance, f, v) == [instance EXCEPT ![f.name] = v]

RECURSIVE SetFields(_, _, _, _, _, _)
SetFields(instance, fields, k, i, db, L) ==
    IF k > Len(fields) THEN instance
    ELSE IF fields[k].name \in IdNames THEN SetFields(instance, fields, k + 1, i, db, L)
    ELSE SetFields(SetAttr(instance, fields[k], GenerateFieldValue(fields[k], i, db, L)),
                   fields, k + 1, i, db, L)

CreateModelInstance(model, i, db, L) ==
    SetFields(NewInstance(model), model.fields, 1, i, db, L)

-----------------------------------------------------------------------------
(* create_base_auth_models *)
\* The statement of create_base_auth_models that raises: 0 for none, k for
\* the k-th get_or_create, 4 for the superuser query
FailAt ==
    CASE faults[GroupTable] = "first" -> 1
      [] faults[GroupTable] = "second" -> 2
      [] faults[GroupTable] = "third" -> 3
      [] faults[ModelName(User)] = "query" -> 4
      [] OTHER -> 0

\* Variant: Group.objects.create in place of get_or_create
RECURSIVE CreateGroups(_, _)
CreateGroups(g, k) ==
    IF k > Len(GroupNames) THEN [groups |-> g, ok |-> TRUE]
    ELSE IF k = FailAt THEN [groups |-> g, ok |-> FALSE]
    ELSE CreateGroups([g EXCEPT ![GroupNames[k]] = @ + 1], k + 1)

\* Group.objects.get_or_create(name=group_name), for the k-th name onwards
RECURSIVE GetOrCreateGroups(_, _)
GetOrCreateGroups(g, k) ==
    IF k > Len(GroupNames) THEN [groups |-> g, ok |-> TRUE]
    ELSE IF k = FailAt THEN [groups |-> g, ok |-> FALSE]
    ELSE LET name == GroupNames[k]
             g2 == IF g[name] = 0 THEN [g EXCEPT ![name] = 1] ELSE g
         IN GetOrCreateGroups(g2, k + 1)

Admin == [username |-> "admin", is_superuser |-> TRUE]

\* Lines 97-100; the username column is unique, so create_superuser raises
\* IntegrityError when another account is called admin
CreateSuperuser(u) ==
    IF FailAt = 4 THEN [users |-> u, ok |-> FALSE]
    ELSE IF \E i \in 1..Len(u) : u[i].is_superuser THEN [users |-> u, ok |-> TRUE]
    ELSE IF \E i \in 1..Len(u) : u[i].username = Admin.username
         THEN [users |-> u, ok |-> FALSE]
    ELSE [users |-> Append(u, Admin), ok |-> TRUE]

CreateBaseAuthModels ==
    /\ pc = "bootstrap"
    /\ LET g == GetOrCreateGroups(groups, 1)
           u == IF g.ok THEN CreateSuperuser(users)
                ELSE [users |-> users, ok |-> FALSE]
       IN /\ groups' = g.groups
          /\ users' = u.users
          /\ logged' = IF g.ok /\ u.ok THEN logged
                       ELSE logged \cup {Message("bootstrap", NoModel, run)}
    /\ pc' = "discover"
    /\ UNCHANGED <<registry, options, seed, faults, rows, created_objects,
                   processed_models, skipped_models, excluded_models,
                   models_to_process, sorted_models, idx, stdout, run, called,
                   attempts, raised, fkLog, field, value>>

-----------------------------------------------------------------------------
(* handle() *)
\* excluded_models = options.get('exclude', []): the parser always stores the
\* key, with None when --exclude was not given
Start ==
    /\ pc = "start"
    /\ excluded_models' = options.exclude
    /\ pc' = "bootstrap"
    /\ UNCHANGED <<registry, options, seed, faults, groups, users, rows,
                   created_objects, processed_models, skipped_models,
                   models_to_process, sorted_models, idx, stdout, logged, run,
                   called, attempts, raised, fkLog, field, value>>

\* The top-level handler of handle(), lines 82-86
Failed(what) ==
    /\ logged' = logged \cup {Message(what, NoModel, run)}
    /\ stdout' = stdout \cup {Message("failed", NoModel, run)}
    /\ pc' = "done"

\* all_models = apps.get_models() and the filter of lines 47-51; "x not in
\* None" raises TypeError as soon as one model is tested
Discover ==
    /\ pc = "discover"
    /\ IF excluded_models.none /\ registry # <<>>
       THEN /\ Failed("TypeError")
            /\ UNCHANGED models_to_process
       ELSE /\ models_to_process' =
                   SelectSeq(registry,
                             LAMBDA m : /\ ModelName(m) \notin excluded_models.names
                                        /\ m.app_label # "auth")
            /\ pc' = "sort"
            /\ UNCHANGED <<stdout, logged>>
    /\ UNCHANGED <<registry, options, seed, faults, groups, users, rows,
                   created_objects, processed_models, skipped_models,
                   excluded_models, sorted_models, idx, run, called, attempts,
                   raised, fkLog, field, value>>

\* Line 54: the class defines no sort_models_by_dependencies and neither does
\* BaseCommand, so the attribute lookup raises AttributeError, which the
\* top-level handler catches.
SortModelsByDependencies ==
    /\ pc = "sort"
    /\ Failed("AttributeError")
    /\ UNCHANGED <<registry, options, seed, faults, groups, users, rows,
                   created_objects, processed_models, skipped_models,
                   excluded_models, models_to_process, sorted_models, idx, run,
                   called, attempts, raised, fkLog, field, value>>

-----------------------------------------------------------------------------
(* The dependency orderer handle() calls, as section 4.1 of the             *)
(* specification describes it: some sequence of the models in which the     *)
(* target of every required single-valued relationship precedes the model   *)
(* that holds it.                                                           *)
Position(order, name) == CHOOSE k \in 1..Len(order) : ModelName(order[k]) = name
Required(model) ==
    {f \in Range(model.fields) : IsInstance(f, "ForeignKey") /\ ~f.null}

Precedes(order) ==
    \A k \in 1..Len(order) : \A f \in Required(order[k]) :
        f.target \in Names(order) => Position(order, f.target) < k

TopologicalOrders(ms) ==
    {order \in [1..Len(ms) -> Range(ms)] :
        /\ \A a, b \in 1..Len(ms) : a # b => order[a] # order[b]
        /\ Precedes(order)}

DependencyOrderer ==
    /\ pc = "sort"
    /\ \E order \in TopologicalOrders(models_to_process) : sorted_models' = order
    /\ idx' = 1
    /\ pc' = IF models_to_process = <<>> THEN "report" ELSE "generate"
    /\ UNCHANGED <<registry, options, seed, faults, groups, users, rows,
                   created_objects, processed_models, skipped_models,
                   excluded_models, models_to_process, stdout, logged, run,
                   called, attempts, raised, fkLog, field, value>>

-----------------------------------------------------------------------------
(* generate_data_for_model *)
\* obj.save(): the environment's fault, or the NOT NULL constraint of a column
SaveRaises(model, instance, i) ==
    \/ faults[ModelName(model)] = "all"
    \/ faults[ModelName(model)] = "odd" /\ i % 2 = 1
    \/ \E f \in Range(model.fields) :
          f.name \notin IdNames /\ ~f.null /\ instance[f.name] = NoValue

\* The row save() writes: the id of the row each ForeignKey column points to
FKNames(model) ==
    {f.name : f \in {g \in Range(model.fields) : IsInstance(g, "ForeignKey")}}

Row(model, instance) ==
    [fk |-> [n \in FKNames(model) |-> instance[n].n],
     m2m |-> [n \in {model.many_to_many[k].name : k \in 1..Len(model.many_to_many)}
                |-> {}]]

\* What the ForeignKey branch was given and what it gave, for one call
Observe(f, i, db) ==
    LET r == ForeignKeyValue(f, i, db)
        ledger == Get(created_objects, f.target)
    IN [target |-> f.target,
        ledgerEmpty |-> ledger = <<>>,
        storeEmpty |-> StoreCount(db, f.target) = 0,
        queryRaises |-> faults[f.target] = "query",
        queried |-> r.queried,
        isNone |-> r.value = NoValue,
        inLedger |-> r.value.n \in Range(ledger),
        inStore |-> r.value.n \in 1..StoreCount(db, f.target)]

\* Variant: the object is appended before save() is called
AttemptAppendFirst(model, i, acc) ==
    LET name == ModelName(model)
        obj == CreateModelInstance(model, i, acc.db, 1)
        fks == {f \in Range(model.fields) : IsInstance(f, "ForeignKey")}
        seen == {o \in acc.log \cup {Observe(f, i, acc.db) : f \in fks} : TRUE}
    IN IF SaveRaises(model, obj, i)
       THEN [acc EXCEPT !.created = Append(@, None),
                        !.log = seen, !.errors = @ + 1, !.attempts = @ + 1]
       ELSE [acc EXCEPT !.db = [acc.db EXCEPT ![name] = Append(@, Row(model, obj))],
                        !.created = Append(@, Len(acc.db[name]) + 1),
                        !.log = seen, !.attempts = @ + 1]

\* One pass of the loop body of lines 119-127: the store and the local list
\* created_objects after it
Attempt(model, i, acc) ==
    LET name == ModelName(model)
        obj == CreateModelInstance(model, i, acc.db, 1)
        fks == {f \in Range(model.fields) : IsInstance(f, "ForeignKey")}
        seen == {o \in acc.log \cup {Observe(f, i, acc.db) : f \in fks} : TRUE}
    IN IF SaveRaises(model, obj, i)
       THEN [acc EXCEPT !.log = seen, !.errors = @ + 1, !.attempts = @ + 1]
       ELSE [acc EXCEPT !.db = [acc.db EXCEPT ![name] = Append(@, Row(model, obj))],
                        !.created = Append(@, Len(acc.db[name]) + 1),
                        !.log = seen, !.attempts = @ + 1]

\* Variant: break in place of continue, the loop ends at the first failure
RECURSIVE InstanceLoopBreak(_, _, _, _)
InstanceLoopBreak(model, lo, hi, acc) ==
    IF hi <= lo \/ acc.errors > 0 THEN acc
    ELSE IF hi = lo + 1 THEN Attempt(model, lo, acc)
    ELSE LET mid == (lo + hi) \div 2
         IN InstanceLoopBreak(model, mid, hi, InstanceLoopBreak(model, lo, mid, acc))

\* for i in range(lo, hi): the passes are made in order, the range being
\* split in halves, and acc read before a pass starts, to keep the
\* evaluation shallow
RECURSIVE InstanceLoop(_, _, _, _)
InstanceLoop(model, lo, hi, acc) ==
    IF hi <= lo \/ acc.attempts < 0 THEN acc
    ELSE IF hi = lo + 1 THEN Attempt(model, lo, acc)
    ELSE LET mid == (lo + hi) \div 2
         IN InstanceLoop(model, mid, hi, InstanceLoop(model, lo, mid, acc))

Skipped(name, note) == [model |-> name, note |-> note]

GenerateDataForModel ==
    /\ pc = "generate"
    /\ LET model == sorted_models[idx]
           name == ModelName(model)
       IN /\ called' = Append(called, name)
          /\ IF faults[name] = "setup"
             THEN \* self.stdout.write raises: lines 132-134
                  /\ logged' = logged \cup {Message("model", name, run)}
                  /\ skipped_models' = skipped_models \cup {Skipped(name, "")}
                  /\ raised' = raised \cup {<<name, "setup">>}
                  /\ UNCHANGED <<rows, created_objects, processed_models, stdout,
                                 attempts, fkLog>>
             ELSE IF model.abstract
             THEN /\ skipped_models' = skipped_models \cup {Skipped(name, "abstract")}
                  /\ stdout' = stdout \cup {Message("generating", name, run)}
                  /\ UNCHANGED <<rows, created_objects, processed_models, logged,
                                 attempts, raised, fkLog>>
             ELSE \E r \in {InstanceLoop(model, 0, NumRecords,
                                 [db |-> rows, created |-> <<>>, log |-> {},
                                  errors |-> 0, attempts |-> 0])} :
                     /\ rows' = r.db
                     /\ processed_models' = processed_models \cup {name}
                     /\ created_objects' = Put(created_objects, name, r.created)
                     /\ stdout' = stdout \cup {Message("generating", name, run)}
                     /\ logged' = IF r.errors = 0 THEN logged
                                  ELSE logged \cup {Message("instance", name, run)}
                     /\ raised' = IF r.errors = 0 THEN raised
                                  ELSE raised \cup {<<name, "instance">>}
                     /\ attempts' = [attempts EXCEPT ![name] = r.attempts]
                     /\ fkLog' = fkLog \cup r.log
                     /\ UNCHANGED skipped_models
    /\ pc' = "wire"
    /\ UNCHANGED <<registry, options, seed, faults, groups, users,
                   excluded_models, models_to_process, sorted_models, idx, run,
                   field, value>>

-----------------------------------------------------------------------------
(* handle_many_to_many_relations *)
\* random.sample(related_objects, num_relations), for the j-th object
Sample(related_objects, j) ==
    LET n == Len(related_objects)
        num_relations == Rand(j, Min(MaxRelations, n))
    IN {related_objects[((seed + j + d) % n) + 1] : d \in 0..(num_relations - 1)}

\* The loop of lines 232-237 for one field: every object of the model's
\* ledger entry gets a sample of the target's ledger entry
SetAll(table, objs, fname, related_objects) ==
    [pk \in DOMAIN table |->
        IF pk \in Range(objs)
        THEN LET j == CHOOSE k \in 1..Len(objs) : objs[k] = pk
             IN [table[pk] EXCEPT !.m2m[fname] = Sample(related_objects, j)]
        ELSE table[pk]]

RECURSIVE WireFields(_, _, _)
WireFields(model, k, table) ==
    IF k > Len(model.many_to_many) THEN table
    ELSE LET f == model.many_to_many[k]
             related_objects == Get(created_objects, f.target)
         IN IF related_objects = <<>> THEN WireFields(model, k + 1, table)
            ELSE WireFields(model, k + 1,
                            SetAll(table, Get(created_objects, ModelName(model)),
                                   f.name, related_objects))

\* Whether handle_many_to_many_relations reaches a set() call
CallsSet(model) ==
    /\ Get(created_objects, ModelName(model)) # <<>>
    /\ \E f \in Range(model.many_to_many) : Get(created_objects, f.target) # <<>>

\* Variant: no handler around the loop body, a failing set() ends the run
HandleManyToManyRelationsUncaught ==
    /\ pc = "wire"
    /\ LET model == sorted_models[idx]
           name == ModelName(model)
       IN IF faults[name] = "wire" /\ CallsSet(model)
          THEN /\ Failed("wiring")
               /\ raised' = raised \cup {<<name, "wiring">>}
               /\ UNCHANGED <<rows, idx>>
          ELSE /\ rows' = [rows EXCEPT ![name] = WireFields(model, 1, @)]
               /\ idx' = idx + 1
               /\ pc' = IF idx = Len(sorted_models) THEN "report" ELSE "generate"
               /\ UNCHANGED <<stdout, raised, logged>>
    /\ UNCHANGED <<registry, options, seed, faults, groups, users,
                   created_objects, processed_models, skipped_models,
                   excluded_models, models_to_process, sorted_models,
                   run, called, attempts, fkLog, field, value>>

HandleManyToManyRelations ==
    /\ pc = "wire"
    /\ LET model == sorted_models[idx]
           name == ModelName(model)
       IN IF faults[name] = "wire" /\ CallsSet(model)
          THEN \* set() raises: the handler of lines 62-67
               /\ stdout' = stdout \cup {Message("warning", name, run)}
               /\ raised' = raised \cup {<<name, "wiring">>}
               /\ UNCHANGED rows
          ELSE /\ rows' = [rows EXCEPT ![name] = WireFields(model, 1, @)]
               /\ UNCHANGED <<stdout, raised>>
    /\ idx' = idx + 1
    /\ pc' = IF idx = Len(sorted_models) THEN "report" ELSE "generate"
    /\ UNCHANGED <<registry, options, seed, faults, groups, users,
                   created_objects, processed_models, skipped_models,
                   excluded_models, models_to_process, sorted_models, logged,
                   run, called, attempts, fkLog, field, value>>

\* Lines 69-80
Report ==
    /\ pc = "report"
    /\ stdout' = stdout \cup
                 {Message("success", NoModel, Cardinality(processed_models))} \cup
                 (IF skipped_models # {} THEN {Message("skipped", NoModel, run)}
                  ELSE {})
    /\ pc' = "done"
    /\ UNCHANGED <<registry, options, seed, faults, groups, users, rows,
                   created_objects, processed_models, skipped_models,
                   excluded_models, models_to_process, sorted_models, idx,
                   logged, run, called, attempts, raised, fkLog, field, value>>

\* Command.__init__ and the next invocation of the command on the same store
NoDict == [k \in {} |-> <<>>]

ExcludeOptions ==
    { [none |-> TRUE, names |-> {}],
      [none |-> FALSE, names |-> {<<"crm", "nosuchmodel">>}],
      [none |-> FALSE, names |-> {Tag}] }

NewRun ==
    /\ pc = "done"
    /\ run < MaxRuns
    /\ run' = run + 1
    /\ options' \in {[exclude |-> e] : e \in ExcludeOptions}
    /\ faults' \in BootstrapFaults
    /\ created_objects' = NoDict
    /\ processed_models' = {}
    /\ skipped_models' = {}
    /\ excluded_models' = [none |-> FALSE, names |-> {}]
    /\ models_to_process' = <<>>
    /\ sorted_models' = <<>>
    /\ idx' = 1
    /\ pc' = "start"
    /\ called' = <<>>
    /\ attempts' = [n \in AllNames |-> 0]
    /\ raised' = {}
    /\ fkLog' = {}
    /\ UNCHANGED <<registry, seed, groups, users, rows, stdout, logged,
                   field, value>>

-----------------------------------------------------------------------------
NoField == Field("none", <<>>, 0, TRUE, NoValue)
NoResult == [op |-> "none", L |-> 0, given |-> NoValue, instance |-> <<>>]

InitCommand ==
    /\ created_objects = NoDict
    /\ processed_models = {}
    /\ skipped_models = {}
    /\ pc = "start"
    /\ excluded_models = [none |-> FALSE, names |-> {}]
    /\ models_to_process = <<>>
    /\ sorted_models = <<>>
    /\ idx = 1
    /\ stdout = {}
    /\ logged = {}
    /\ run = 1
    /\ called = <<>>
    /\ attempts = [n \in AllNames |-> 0]
    /\ raised = {}
    /\ fkLog = {}
    /\ value = NoResult

InitialUsers ==
    { <<>>, <<Admin>>, <<[username |-> "admin", is_superuser |-> FALSE]>>,
      <<[username |-> "root", is_superuser |-> TRUE]>> }

Init ==
    /\ registry \in Registries
    /\ options \in {[exclude |-> e] : e \in ExcludeOptions}
    /\ seed = 0
    /\ faults \in BootstrapFaults
    /\ groups \in [Range(GroupNames) -> {0, 1}]
    /\ users \in InitialUsers
    /\ rows = [n \in AllNames |-> <<>>]
    /\ field = NoField
    /\ InitCommand

Next ==
    \/ Start
    \/ CreateBaseAuthModels
    \/ Discover
    \/ SortModelsByDependencies
    \/ NewRun

Spec == Init /\ [][Next]_vars

\* One run with the dependency orderer supplied, on a store that earlier
\* runs or fixtures may have filled
PriorRow(model) ==
    [fk |-> [n \in FKNames(model) |-> 1],
     m2m |-> [n \in {model.many_to_many[k].name : k \in 1..Len(model.many_to_many)}
                |-> {}]]

PriorStore(reg) ==
    [n \in AllNames |->
        IF n \in Names(reg) /\ n # ModelName(User) /\ ~Descriptor(reg, n).abstract
        THEN [k \in 1..PriorRows |-> PriorRow(Descriptor(reg, n))]
        ELSE <<>>]

InitSorted ==
    /\ registry \in Registries
    /\ options \in {[exclude |-> e] : e \in {x \in ExcludeOptions : x.names # {Tag}}}
    /\ seed \in 0..MaxSeed
    /\ faults \in FaultPlans(registry)
    /\ \/ /\ groups = [g \in Range(GroupNames) |-> 0]
          /\ users = <<>>
          /\ rows = [n \in AllNames |-> <<>>]
       \/ /\ groups = [g \in Range(GroupNames) |-> 1]
          /\ users = <<Admin>>
          /\ rows = PriorStore(registry)
    /\ field = NoField
    /\ InitCommand

NextSorted ==
    \/ Start
    \/ CreateBaseAuthModels
    \/ Discover
    \/ DependencyOrderer
    \/ GenerateDataForModel
    \/ HandleManyToManyRelations
    \/ Report

SpecSorted == InitSorted /\ [][NextSorted]_vars

-----------------------------------------------------------------------------
(* The field value synthesizer and the instance builder on their own: a    *)
(* field is drawn, then generate_field_value and create_model_instance are *)
(* applied to it with every draw of the fake-data source.                  *)
MaxFakeLen == 20

TestFields ==
    { Field("CharField", <<"user", "email">>, 30, FALSE, NoValue),
      Field("CharField", <<"email">>, 254, FALSE, NoValue),
      Field("CharField", <<"mobile", "phone">>, 12, FALSE, Val("str", <<>>, 0)),
      Field("CharField", <<"first", "name">>, 10, FALSE, NoValue),
      Field("CharField", <<"language_code">>, 2, FALSE, NoValue),
      Field("CharField", <<"title">>, 30, FALSE, Val("str", <<>>, 0)),
      Field("CharField", <<"code">>, 3, FALSE, Val("str", <<"x">>, 0)),
      Field("CharField", <<"note">>, None, TRUE, NoValue),
      Field("EmailField", <<"contact">>, 254, FALSE, NoValue),
      Field("EmailField", <<"email">>, 30, FALSE, NoValue),
      Field("URLField", <<"website">>, 200, TRUE, NoValue),
      Field("TextField", <<"description">>, None, TRUE, NoValue),
      Field("DateTimeField", <<"created">>, None, FALSE, NoValue),
      Field("DateField", <<"birth">>, None, TRUE, NoValue),
      Field("BooleanField", <<"active">>, None, FALSE, Val("bool", <<>>, 1)),
      Field("IntegerField", <<"index_number">>, None, FALSE, NoValue),
      Field("SmallIntegerField", <<"rank">>, None, FALSE, Val("int", <<>>, 7)),
      Field("DecimalField", <<"amount">>, None, FALSE, NoValue),
      Field("FloatField", <<"ratio">>, None, FALSE, Val("float", <<>>, 1)),
      Field("JSONField", <<"extra">>, None, FALSE, Val("json", <<>>, 0)),
      Field("UUIDField", <<"token">>, None, TRUE, NoValue) }

\* A model that declares the drawn field next to a short-text one
TestModel(f) ==
    Model("crm", "sample", FALSE,
          <<f, Field("CharField", <<"label">>, 30, FALSE, NoValue)>>, <<>>)

GenerateValue ==
    /\ field # NoField
    /\ \E L \in 1..MaxFakeLen :
          value' = [op |-> "field", L |-> L,
                    given |-> GenerateFieldValue(field, 0, rows, L),
                    instance |-> <<>>]
    /\ UNCHANGED <<registry, options, seed, faults, groups, users, rows,
                   created_objects, processed_models, skipped_models, pc,
                   excluded_models, models_to_process, sorted_models, idx,
                   stdout, logged, run, called, attempts, raised, fkLog, field>>

BuildInstance ==
    /\ field # NoField
    /\ \E L \in 1..MaxFakeLen :
          value' = [op |-> "instance", L |-> L,
                    given |-> GenerateFieldValue(field, 0, rows, L),
                    instance |-> CreateModelInstance(TestModel(field), 0, rows, L)]
    /\ UNCHANGED <<registry, options, seed, faults, groups, users, rows,
                   created_objects, processed_models, skipped_models, pc,
                   excluded_models, models_to_process, sorted_models, idx,
                   stdout, logged, run, called, attempts, raised, fkLog, field>>

InitField ==
    /\ registry = <<>>
    /\ options = [exclude |-> [none |-> TRUE, names |-> {}]]
    /\ seed = 0
    /\ faults = NoFaults
    /\ groups = [g \in Range(GroupNames) |-> 0]
    /\ users = <<>>
    /\ rows = [n \in AllNames |-> <<>>]
    /\ field \in TestFields
    /\ InitCommand

NextField ==
    \/ GenerateValue
    \/ BuildInstance

SpecField == InitField /\ [][NextField]_vars

-----------------------------------------------------------------------------
(* Properties *)
NameSeq(ms) == [k \in 1..Len(ms) |-> ModelName(ms[k])]
HasRow(name, pk) == pk \in 1..StoreCount(rows, name)
Superusers == {i \in 1..Len(users) : users[i].is_superuser}

\* C1: when handle() has finished, every model to process that holds a
\* required single-valued relationship to another model to process was
\* processed, and after that other model.
C1_RequiredTargetsProcessedFirst ==
    pc = "done" =>
        \A k \in 1..Len(models_to_process) :
            \A f \in Required(models_to_process[k]) :
                f.target \in Names(models_to_process) =>
                    \E a, b \in 1..Len(called) :
                        /\ a < b
                        /\ called[a] = f.target
                        /\ called[b] = ModelName(models_to_process[k])

\* C2: when a run has finished, every registered model that is not an auth
\* model, not excluded, not abstract, has no relationships and whose saves
\* succeed is reported as processed and has 100 rows per run made so far on
\* the store that started empty.
Independent(m) ==
    /\ m.app_label # "auth"
    /\ ModelName(m) \notin options.exclude.names
    /\ ~m.abstract
    /\ FKNames(m) = {}
    /\ m.many_to_many = <<>>
    /\ faults[ModelName(m)] = "none"

C2_HundredRowsPerRun ==
    pc = "done" =>
        \A m \in Range(registry) :
            Independent(m) =>
                /\ ModelName(m) \in processed_models
                /\ Len(rows[ModelName(m)]) = NumRecords * run

\* C3: at the end of a run in which nothing raised, every instance created
\* for a model with a many-to-many field whose target has instances in the
\* ledger has that field set to between 1 and min(5, n) of those instances.
C3_EveryInstanceWired ==
    (pc = "done" /\ faults = NoFaults) =>
        \A k \in 1..Len(sorted_models) :
            \A f \in Range(sorted_models[k].many_to_many) :
                LET name == ModelName(sorted_models[k])
                    targets == Get(created_objects, f.target)
                IN targets # <<>> =>
                    \A pk \in Range(Get(created_objects, name)) :
                        LET linked == rows[name][pk].m2m[f.name]
                        IN /\ linked \subseteq Range(targets)
                           /\ Cardinality(linked) >= 1
                           /\ Cardinality(linked) <= Min(MaxRelations, Len(targets))

\* C4: every entry of the creation ledger is an instance that save() wrote
\* to the store, and every foreign-key or many-to-many value a row holds is
\* a row of the store.
C4_LedgerHoldsOnlySavedInstances ==
    /\ \A name \in DOMAIN created_objects :
          \A k \in 1..Len(created_objects[name]) :
              HasRow(name, created_objects[name][k])
    /\ \A m \in Range(registry) :
          \A k \in 1..Len(rows[ModelName(m)]) :
              LET row == rows[ModelName(m)][k]
              IN /\ \A f \in Range(m.fields) :
                        IsInstance(f, "ForeignKey") =>
                            \/ row.fk[f.name] = None
                            \/ HasRow(f.target, row.fk[f.name])
                 /\ \A f \in Range(m.many_to_many) :
                        \A pk \in row.m2m[f.name] : HasRow(f.target, pk)

\* C4 witness: half of a model's saves raised, the other half is its ledger
\* entry, and a model processed later drew its foreign keys from that entry.
C4_Witness ==
    /\ pc = "done"
    /\ \E m \in Range(registry) :
          /\ faults[ModelName(m)] = "odd"
          /\ Len(Get(created_objects, ModelName(m))) = NumRecords \div 2
          /\ \E o \in fkLog : o.target = ModelName(m) /\ o.inLedger

C5_GroupsAtMostOnce ==
    /\ \A g \in Range(GroupNames) : groups[g] <= 1
    /\ (pc \notin {"start", "bootstrap"} /\ FailAt \notin 1..3) =>
          \A g \in Range(GroupNames) : groups[g] = 1

C5_BootstrapStep ==
    /\ Superusers # {} => users' = users
    /\ Len(users') <= Len(users) + 1
    /\ pc = "bootstrap" =>
          /\ pc' = "discover"
          /\ FailAt # 0 => Message("bootstrap", NoModel, run) \in logged'

C6_ExceptionMeansSkipped ==
    \A r \in raised : Skipped(r[1], "") \in skipped_models

\* C6 amended: a model is in the skipped set when its setup raised, and
\* stays in the processed set, out of the skipped set, when an instance or
\* the wiring raised, the wiring failure being reported as a warning; in
\* every case the loop goes on, and when it has ended
\* generate_data_for_model was called for every model of the order.
C6_RunContinuesPastExceptions ==
    /\ \A r \in raised :
          /\ r[2] = "setup" =>
                /\ Skipped(r[1], "") \in skipped_models
                /\ r[1] \notin processed_models
          /\ r[2] \in {"instance", "wiring"} =>
                /\ Skipped(r[1], "") \notin skipped_models
                /\ r[1] \in processed_models
          /\ r[2] = "wiring" => Message("warning", r[1], run) \in stdout
    /\ pc = "generate" => called = SubSeq(NameSeq(sorted_models), 1, idx - 1)
    /\ pc = "wire" => called = SubSeq(NameSeq(sorted_models), 1, idx)
    /\ pc \in {"report", "done"} => called = NameSeq(sorted_models)

\* C6 witness: an exception was raised for the first model of the order and
\* the models after it were all attempted.
C6_Witness ==
    /\ pc = "done"
    /\ Len(sorted_models) >= 2
    /\ \E r \in raised : r[1] = ModelName(sorted_models[1])
    /\ called = NameSeq(sorted_models)

\* C7: once generate_data_for_model has returned for a model that is not
\* abstract and whose setup did not raise, 100 attempts were made, the model
\* is processed and not skipped, and its ledger entry exists, empty when
\* every save raised.
C7_AllAttemptsMade ==
    \A k \in 1..Len(called) :
        LET name == called[k]
            m == Descriptor(registry, name)
        IN (~m.abstract /\ <<name, "setup">> \notin raised) =>
              /\ attempts[name] = NumRecords
              /\ name \in processed_models
              /\ Skipped(name, "") \notin skipped_models
              /\ name \in DOMAIN created_objects
              /\ faults[name] = "all" => created_objects[name] = <<>>
              /\ (faults[name] = "none" /\ Required(m) = {}) =>
                    Len(created_objects[name]) = NumRecords

\* C7 witness: every save of a model raised and the model is processed with
\* an empty ledger entry.
C7_Witness ==
    \E k \in 1..Len(called) :
        /\ faults[called[k]] = "all"
        /\ attempts[called[k]] = NumRecords
        /\ called[k] \in processed_models
        /\ Get(created_objects, called[k]) = <<>>
        /\ called[k] \in DOMAIN created_objects

\* C8: the ForeignKey branch gives an instance of the target's ledger entry
\* and asks the store nothing when that entry is not empty; it asks the
\* store only when the entry is empty or absent, then gives a row of the
\* store, or no value when the store has none or the query raises.
C8_ResolverPrefersLedger ==
    \A o \in fkLog :
        /\ ~o.ledgerEmpty => (o.inLedger /\ ~o.queried /\ ~o.isNone)
        /\ o.queried => o.ledgerEmpty
        /\ o.ledgerEmpty => o.queried
        /\ (o.ledgerEmpty /\ (o.storeEmpty \/ o.queryRaises)) => o.isNone
        /\ (o.ledgerEmpty /\ ~o.storeEmpty /\ ~o.queryRaises) =>
              (o.inStore /\ ~o.isNone)

\* C8 witness: in one run the branch answered from the ledger although the
\* store had rows, from an empty store with no value, and from the store
\* when the ledger had no entry.
C8_Witness ==
    /\ \E o \in fkLog : ~o.ledgerEmpty /\ ~o.storeEmpty /\ o.inLedger /\ ~o.queried
    /\ \E o \in fkLog : o.ledgerEmpty /\ o.storeEmpty /\ o.isNone /\ o.queried
    /\ \E o \in fkLog : o.ledgerEmpty /\ ~o.storeEmpty /\ o.inStore /\ o.queried

\* C9: the instance builder leaves a field for which the synthesizer gave no
\* value at the default the model declares.
C9_FieldLeftAtDefault ==
    (value.op = "instance" /\ value.given = NoValue) =>
        value.instance[field.name] = field.default

\* C10: for a short-text field whose name ends with "email" and whose max
\* length is 30 the synthesizer returns a string of at most 30 characters.
C10_EmailWithinMaxLength ==
    (/\ value.op = "field"
     /\ IsInstance(field, "CharField")
     /\ EndsWith(field.name, "email")
     /\ field.max_length = 30) =>
        (value.given.type = "str" /\ Len(value.given.s) <= field.max_length)

====
